---- MODULE Spec2Model ----
(***************************************************************************)
(* Model of dilib-derive/src/target.rs: the analysis of a `DeriveInput`    *)
(* into an `InjectableTarget` (parse_derive_injectable) and the emission   *)
(* of the generated `impl dilib::Injectable` (InjectableTarget::emit).     *)
(*                                                                         *)
(* Two specifications share the variables:                                 *)
(*   SpecClassify  one field type is classified by get_type_and_scope;     *)
(*   Spec          one DeriveInput is parsed and, if accepted, emitted.    *)
(***************************************************************************)
EXTENDS Integers, Sequences, FiniteSets, TLC

VARIABLES pc, ty, result, input, target, diagnostic, output

vars == <<pc, ty, result, input, target, diagnostic, output>>

(***************************************************************************)
(* Bounds of the model.                                                    *)
(***************************************************************************)
\* Largest number of generic arguments of the outermost path segment.
MaxArgs == 2
\* Largest number of fields of a struct.
MaxFields == 3

(***************************************************************************)
(* syn's syntax tree, as far as the code inspects it.                      *)
(*   Type            [kind, qself, segments]   kind "Path" or "Other"      *)
(*   PathSegment     [ident, arguments]                                    *)
(*   PathArguments   [kind, args]  kind "None", "AngleBracketed" or        *)
(*                                 "Parenthesized"                         *)
(*   GenericArgument [kind, ty]    kind "Type", "Lifetime" or "Const"      *)
(***************************************************************************)
NoType == [kind |-> "None", qself |-> FALSE, segments |-> <<>>]

\* A type that is not Type::Path (a reference, a tuple, a slice ...).
OtherType == [kind |-> "Other", qself |-> FALSE, segments |-> <<>>]

ArgsNone == [kind |-> "None", args |-> <<>>]
ArgsParenthesized == [kind |-> "Parenthesized", args |-> <<>>]
AngleBracketed(args) == [kind |-> "AngleBracketed", args |-> args]

TypeArg(t) == [kind |-> "Type", ty |-> t]
LifetimeArg == [kind |-> "Lifetime", ty |-> NoType]
ConstArg == [kind |-> "Const", ty |-> NoType]

Segment(ident, arguments) == [ident |-> ident, arguments |-> arguments]

\* A Type::Path: `ident<arguments>`, `module::ident<arguments>`, and with
\* qself `<T as module>::ident<arguments>`.
PathType(qself, namespaced, ident, arguments) ==
    [kind |-> "Path", qself |-> qself,
     segments |-> IF namespaced \/ qself
                  THEN <<Segment("module", ArgsNone), Segment(ident, arguments)>>
                  ELSE <<Segment(ident, arguments)>>]

Simple(ident) == PathType(FALSE, FALSE, ident, ArgsNone)
Generic1(ident, t) == PathType(FALSE, FALSE, ident, AngleBracketed(<<TypeArg(t)>>))

Foo == Simple("Foo")

\* The types that occur as generic arguments of the classified type.
InnerTypes ==
    { Foo, OtherType, Simple("Mutex"),
      PathType(TRUE, FALSE, "Inner", ArgsNone),
      Generic1("Mutex", Foo), Generic1("Vec", Foo),
      PathType(FALSE, TRUE, "Mutex", AngleBracketed(<<TypeArg(Foo)>>)),
      PathType(TRUE, FALSE, "Mutex", AngleBracketed(<<TypeArg(Foo)>>)) }

GenericArguments == {LifetimeArg, ConstArg} \cup {TypeArg(t) : t \in InnerTypes}

SeqsUpTo(S, n) == UNION {[1..k -> S] : k \in 0..n}

PathArgumentsSet ==
    {ArgsNone, ArgsParenthesized}
        \cup {AngleBracketed(a) : a \in SeqsUpTo(GenericArguments, MaxArgs)}

Idents == {"Foo", "Box", "Vec", "Mutex", "Singleton", "Arc"}

\* The declared field types that are classified.
Types ==
    {OtherType}
        \cup {PathType(q, n, id, a) :
                q \in BOOLEAN, n \in BOOLEAN, id \in Idents, a \in PathArgumentsSet}

Last(s) == s[Len(s)]

(***************************************************************************)
(* get_singleton_type and get_type_and_scope (target.rs 178-236).          *)
(* An Option<Type> is [tag, val]; tag "Panic" is the unwinding of          *)
(* `unwrap()` on None.                                                     *)
(***************************************************************************)
None == [tag |-> "None", val |-> NoType]
Some(t) == [tag |-> "Some", val |-> t]
Panic == [tag |-> "Panic", val |-> NoType]

\* syn's PathArguments::is_empty, used at target.rs 204.
PathArgumentsIsEmpty(arguments) ==
    CASE arguments.kind = "None" -> TRUE
      [] arguments.kind = "AngleBracketed" -> arguments.args = <<>>
      [] OTHER -> FALSE

\* `bracketed.args.first()`: [tag, val] with val a GenericArgument.
First(args) ==
    IF args = <<>> THEN [tag |-> "None", val |-> LifetimeArg]
    ELSE [tag |-> "Some", val |-> args[1]]

\* target.rs 203-214: Is `Singleton<T>`
SingletonBranch(segment) ==
    IF segment.ident = "Singleton" /\ ~PathArgumentsIsEmpty(segment.arguments)
    THEN IF segment.arguments.kind = "AngleBracketed"
         THEN LET first == First(segment.arguments.args) IN
              IF first.tag = "None" THEN Panic
              ELSE LET generic_arg == first.val IN
                   IF generic_arg.kind = "Type" /\ generic_arg.ty.kind = "Path"
                   THEN Some(generic_arg.ty)
                   ELSE None
         ELSE None
    ELSE None

\* target.rs 216-230: Is `Arc<Mutex<T>>`
ArcBranch(segment) ==
    IF segment.ident = "Arc"
    THEN IF segment.arguments.kind = "AngleBracketed"
         THEN LET first == First(segment.arguments.args) IN
              IF first.tag = "None" THEN Panic
              ELSE LET generic_arg == first.val IN
                   IF generic_arg.kind = "Type" /\ generic_arg.ty.kind = "Path"
                   THEN LET generic == generic_arg.ty
                            inner == Last(generic.segments)
                        IN IF inner.ident = "Mutex" THEN Some(generic) ELSE None
                   ELSE None
         ELSE None
    ELSE None

\* Mutant: `Singleton<T>` yields the declared type instead of its argument.
get_singleton_type_Whole(t) ==
    IF t.kind # "Path" THEN None
    ELSE IF t.qself THEN None
    ELSE LET segment == Last(t.segments)
             singleton == SingletonBranch(segment)
         IN IF singleton.tag = "Some" THEN Some(t)
            ELSE IF singleton.tag = "Panic" THEN singleton
            ELSE ArcBranch(segment)

\* Mutant: the qself test of lines 190-192 is missing.
get_singleton_type_NoQself(t) ==
    IF t.kind # "Path" THEN None
    ELSE LET segment == Last(t.segments)
             singleton == SingletonBranch(segment)
         IN IF singleton.tag # "None" THEN singleton ELSE ArcBranch(segment)

get_singleton_type(t) ==
    IF t.kind # "Path" THEN None
    ELSE IF t.qself THEN None
    ELSE LET segment == Last(t.segments)
             singleton == SingletonBranch(segment)
         IN IF singleton.tag # "None" THEN singleton ELSE ArcBranch(segment)

\* The (Type, Scope) pair, or the panic that get_singleton_type raised.
Classified(t, scope) == [status |-> "ok", ty |-> t, scope |-> scope]
ClassifyPanic == [status |-> "panic", ty |-> NoType, scope |-> "None"]
NoResult == [status |-> "none", ty |-> NoType, scope |-> "None"]

get_type_and_scope(t) ==
    LET generic == get_singleton_type(t) IN
    CASE generic.tag = "Some" -> Classified(generic.val, "Singleton")
      [] generic.tag = "None" -> Classified(t, "Scoped")
      [] OTHER -> ClassifyPanic

(***************************************************************************)
(* DeriveInput (syn).  data is "Struct", "Enum" or "Union"; a struct has   *)
(* fields [kind, list] with kind "Unit", "Named" or "Unnamed" and list the *)
(* fields in declaration order, each [ident, ty] (ident "" when unnamed).  *)
(***************************************************************************)
Field(ident, t) == [ident |-> ident, ty |-> t]
Fields(kind, list) == [kind |-> kind, list |-> list]
FieldsUnit == Fields("Unit", <<>>)

DeriveInput(data, fields) == [ident |-> "Target", data |-> data, fields |-> fields]
NoInput == [ident |-> "", data |-> "None", fields |-> FieldsUnit]

FieldNames == {"a", "container", "container1", "container2"}

\* The declared types of the fields of the parsed structs.
FieldTypes ==
    { Foo, Generic1("Singleton", Foo), Generic1("Arc", Generic1("Mutex", Foo)),
      PathType(FALSE, FALSE, "Arc", AngleBracketed(<<>>)) }

\* Field lists whose names are pairwise different, as a struct's are.
NamedLists ==
    {l \in SeqsUpTo({Field(n, t) : n \in FieldNames, t \in FieldTypes}, MaxFields) :
        \A i, j \in DOMAIN l : l[i].ident = l[j].ident => i = j}

UnnamedLists == SeqsUpTo({Field("", t) : t \in FieldTypes}, MaxFields)

Inputs ==
    {DeriveInput("Enum", FieldsUnit), DeriveInput("Union", FieldsUnit),
     DeriveInput("Struct", FieldsUnit)}
        \cup {DeriveInput("Struct", Fields("Named", l)) : l \in NamedLists}
        \cup {DeriveInput("Struct", Fields("Unnamed", l)) : l \in UnnamedLists}

(***************************************************************************)
(* crate::dependency (TargetField, Dependency), used by target.rs.         *)
(***************************************************************************)
TargetFieldNamed(ident) == [kind |-> "Named", name |-> ident, index |-> 0]
TargetFieldUnnamed(index) == [kind |-> "Unnamed", name |-> "", index |-> index]

DependencyNew(field, field_type, scope, container) ==
    [field |-> field, field_type |-> field_type, scope |-> scope,
     container |-> container]

\* The local binding a dependency is resolved into.
var_name(dep) ==
    IF dep.field.kind = "Named" THEN dep.field.name
    ELSE "_" \o ToString(dep.field.index)

\* The resolution statement of a dependency: `let <var> = <container>.<get by
\* scope>::<field_type>()`.
DependencyToTokens(dep) ==
    [var |-> var_name(dep), ty |-> dep.field_type, scope |-> dep.scope,
     container |-> dep.container]

(***************************************************************************)
(* get_target_constructor, get_container_identifier, get_deps              *)
(* (target.rs 103-176).                                                    *)
(***************************************************************************)
NoConstructor == [present |-> FALSE, name |-> "", params |-> <<>>]

get_target_constructor(in) == NoConstructor

CONTAINER_IDENT == "container"

\* The loop of target.rs 116-126 from field i on, with the loop's two
\* mutable locals.
RECURSIVE ScanFields(_, _, _, _)
ScanFields(named, i, container_name, matches) ==
    IF i > Len(named) THEN container_name
    ELSE LET field_name == named[i].ident IN
         IF field_name = container_name
         THEN ScanFields(named, i + 1, container_name \o ToString(matches), matches + 1)
         ELSE ScanFields(named, i + 1, container_name, matches)

get_container_identifier(fields) ==
    CASE fields.kind = "Named" -> ScanFields(fields.list, 1, CONTAINER_IDENT, 1)
      [] fields.kind = "Unnamed" -> CONTAINER_IDENT
      [] OTHER -> "_"

\* get_deps returns [status, deps]; status "panic" when the classification of
\* a field panicked.
DepOfField(fields, i, container) ==
    LET f == fields.list[i]
        field == IF fields.kind = "Named" THEN TargetFieldNamed(f.ident)
                 ELSE TargetFieldUnnamed(i - 1)
        classified == get_type_and_scope(f.ty)
    IN DependencyNew(field, classified.ty, classified.scope, container)

\* Mutant: positional fields are numbered from one.
get_deps_OneBased(fields) ==
    LET container == "container" IN
    IF fields.kind = "Unit" THEN [status |-> "ok", deps |-> <<>>]
    ELSE IF \E i \in DOMAIN fields.list :
                get_type_and_scope(fields.list[i].ty).status = "panic"
         THEN [status |-> "panic", deps |-> <<>>]
         ELSE [status |-> "ok",
               deps |-> [i \in DOMAIN fields.list |->
                           LET d == DepOfField(fields, i, container) IN
                           IF fields.kind = "Unnamed"
                           THEN [d EXCEPT !.field = TargetFieldUnnamed(i)]
                           ELSE d]]

get_deps(fields) ==
    LET container == "container" IN
    IF fields.kind = "Unit" THEN [status |-> "ok", deps |-> <<>>]
    ELSE IF \E i \in DOMAIN fields.list :
                get_type_and_scope(fields.list[i].ty).status = "panic"
         THEN [status |-> "panic", deps |-> <<>>]
         ELSE [status |-> "ok",
               deps |-> [i \in DOMAIN fields.list |->
                           DepOfField(fields, i, container)]]

(***************************************************************************)
(* InjectableTarget and parse_derive_injectable (target.rs 9-37, 87-101).  *)
(***************************************************************************)
InjectableTargetNew(target_type, container, constructor, deps, is_unit) ==
    [target_type |-> target_type, container |-> container,
     constructor |-> constructor, deps |-> deps, is_unit |-> is_unit]

NoTarget == InjectableTargetNew("", "", NoConstructor, <<>>, FALSE)

\* The panic messages (written without the back quotes of the source).
EnumDiagnostic == "Enum types cannot implement Injectable with #[derive]"
UnionDiagnostic == "Union types cannot implement Injectable with #[derive]"
UnwrapDiagnostic == "called Option::unwrap() on a None value"

Aborted(msg) == [status |-> "panic", msg |-> msg, target |-> NoTarget]
Parsed(t) == [status |-> "ok", msg |-> "", target |-> t]

ParseStruct(in) ==
    LET target_type == in.ident
        constructor == get_target_constructor(in)
        container == get_container_identifier(in.fields)
        deps == get_deps(in.fields)
        is_unit == in.fields = FieldsUnit
    IN IF deps.status = "panic" THEN Aborted(UnwrapDiagnostic)
       ELSE Parsed(InjectableTargetNew(target_type, container, constructor,
                                       deps.deps, is_unit))

\* Mutant: a union is analysed like a struct.
parse_derive_injectable_Union(in) ==
    CASE in.data = "Enum" -> Aborted(EnumDiagnostic)
      [] OTHER -> ParseStruct(in)

parse_derive_injectable(in) ==
    CASE in.data = "Enum" -> Aborted(EnumDiagnostic)
      [] in.data = "Union" -> Aborted(UnionDiagnostic)
      [] OTHER -> ParseStruct(in)

(***************************************************************************)
(* InjectableTarget::emit (target.rs 44-84).  The generated impl is        *)
(*   [target_type, param, stmts, create]: `impl dilib::Injectable for      *)
(*   target_type { fn resolve(param: &dilib::Container) -> Self            *)
(*   { stmts create } }`, and create is [path, delim, params, sep]:        *)
(*   the path called or built, the delimiter around params ("None",        *)
(*   "Brace" or "Paren") and the separator between them.                   *)
(***************************************************************************)
NoOutput ==
    [target_type |-> "", param |-> "", stmts |-> <<>>,
     create |-> [path |-> <<>>, delim |-> "None", params |-> <<>>, sep |-> ""]]

emit(self) ==
    IF self.is_unit
    THEN [target_type |-> self.target_type, param |-> "_", stmts |-> <<>>,
          create |-> [path |-> <<self.target_type>>, delim |-> "None",
                      params |-> <<>>, sep |-> ""]]
    ELSE LET deps == self.deps
             create_instance ==
                 IF self.constructor.present
                 THEN [path |-> <<self.target_type, self.constructor.name>>,
                       delim |-> "Paren", params |-> self.constructor.params,
                       sep |-> ""]
                 ELSE [path |-> <<self.target_type>>, delim |-> "Brace",
                       params |-> [i \in DOMAIN deps |-> var_name(deps[i])],
                       sep |-> ","]
         IN [target_type |-> self.target_type, param |-> self.container,
             stmts |-> [i \in DOMAIN deps |-> DependencyToTokens(deps[i])],
             create |-> create_instance]

(***************************************************************************)
(* The state machines.                                                     *)
(***************************************************************************)
\* SpecClassify: get_type_and_scope applied to one declared type.
InitClassify ==
    /\ pc = "start"
    /\ ty \in Types
    /\ result = NoResult
    /\ input = NoInput
    /\ target = NoTarget
    /\ diagnostic = ""
    /\ output = NoOutput

Classify ==
    /\ pc = "start"
    /\ ty # NoType
    /\ result' = get_type_and_scope(ty)
    /\ pc' = "classified"
    /\ UNCHANGED <<ty, input, target, diagnostic, output>>

NextClassify == Classify

SpecClassify == InitClassify /\ [][NextClassify]_vars

\* Spec: the derive macro on one input: parse_derive_injectable, then emit.
Init ==
    /\ pc = "start"
    /\ ty = NoType
    /\ result = NoResult
    /\ input \in Inputs
    /\ target = NoTarget
    /\ diagnostic = ""
    /\ output = NoOutput

Parse ==
    /\ pc = "start"
    /\ input # NoInput
    /\ LET r == parse_derive_injectable(input) IN
         /\ pc' = IF r.status = "ok" THEN "parsed" ELSE "aborted"
         /\ target' = r.target
         /\ diagnostic' = r.msg
    /\ UNCHANGED <<ty, result, input, output>>

Emit ==
    /\ pc = "parsed"
    /\ output' = emit(target)
    /\ pc' = "emitted"
    /\ UNCHANGED <<ty, result, input, target, diagnostic>>

Next == Parse \/ Emit

Spec == Init /\ [][Next]_vars

(***************************************************************************)
(* Shapes of declared types, as the specification words them.              *)
(***************************************************************************)
SingleSegment(t) == t.kind = "Path" /\ ~t.qself /\ Len(t.segments) = 1

IsPathTypeArg(a) == a.kind = "Type" /\ a.ty.kind = "Path"

\* `name<A>`: one segment, exactly one generic argument, a path type.
SingleSegmentGeneric1(t, name) ==
    /\ SingleSegment(t)
    /\ t.segments[1].ident = name
    /\ t.segments[1].arguments.kind = "AngleBracketed"
    /\ Len(t.segments[1].arguments.args) = 1
    /\ IsPathTypeArg(t.segments[1].arguments.args[1])

\* The argument A of `name<A>`.
ArgOf(t) == t.segments[1].arguments.args[1].ty

\* `Singleton<T>`
DeclaredSingletonT(t) == SingleSegmentGeneric1(t, "Singleton")

\* `Arc<Mutex<T>>`
DeclaredArcMutexT(t) ==
    SingleSegmentGeneric1(t, "Arc") /\ SingleSegmentGeneric1(ArgOf(t), "Mutex")

\* `module::Singleton<T>`: as `Singleton<T>`, after a leading path segment.
NamespacedSingletonT(t) ==
    /\ t.kind = "Path"
    /\ ~t.qself
    /\ Len(t.segments) = 2
    /\ DeclaredSingletonT([t EXCEPT !.segments = <<t.segments[2]>>])

\* A wrapper name with `<>` or with a first generic argument that is no type.
MalformedWrapper(t) ==
    /\ t.kind = "Path"
    /\ Last(t.segments).ident \in {"Singleton", "Arc"}
    /\ Last(t.segments).arguments.kind = "AngleBracketed"
    /\ LET args == Last(t.segments).arguments.args IN
         args = <<>> \/ args[1].kind # "Type"

\* The last segment is `name<A, ..>` with A a path type; no qself.
LastSegmentGeneric(t, name) ==
    /\ t.kind = "Path"
    /\ ~t.qself
    /\ Last(t.segments).ident = name
    /\ Last(t.segments).arguments.kind = "AngleBracketed"
    /\ Last(t.segments).arguments.args # <<>>
    /\ IsPathTypeArg(Last(t.segments).arguments.args[1])

LastSegmentSingleton(t) == LastSegmentGeneric(t, "Singleton")

LastSegmentArcMutex(t) ==
    /\ LastSegmentGeneric(t, "Arc")
    /\ Last(Last(t.segments).arguments.args[1].ty.segments).ident = "Mutex"

\* The last segment is `Arc<>`; no qself.
ArcNoArguments(t) ==
    /\ t.kind = "Path"
    /\ ~t.qself
    /\ Last(t.segments).ident = "Arc"
    /\ Last(t.segments).arguments = AngleBracketed(<<>>)

(***************************************************************************)
(* Properties of the classification, checked under SpecClassify.           *)
(***************************************************************************)
\* C1: a field declared `Arc<Mutex<T>>` is classified as the type T (not
\* `Mutex<T>`, not the declared type) with scope Singleton.
C1_ArcMutexYieldsT ==
    pc = "classified" /\ DeclaredArcMutexT(ty)
        => result = Classified(ArgOf(ArgOf(ty)), "Singleton")

\* C5: a wrapper name with zero generic arguments or a non-type first
\* argument is classified without aborting, as the declared type with scope
\* Scoped.
C5_MalformedWrapperIsScoped ==
    pc = "classified" /\ MalformedWrapper(ty) => result = Classified(ty, "Scoped")

\* C6 as stated, at the namespaced paths it names: `module::Singleton<T>`
\* is classified as itself with scope Scoped.
C6_NamespacedSingletonIsScoped ==
    pc = "classified" /\ NamespacedSingletonT(ty)
        => result = Classified(ty, "Scoped")

\* C6 amended: every declared type that has a qself, is no path type, or
\* whose last segment is neither `Singleton<A, ..>` with a path type A nor
\* `Arc<M, ..>` with a path type M ending in Mutex, is classified as itself
\* with scope Scoped, except `Arc<>`, on which the classification aborts.
C6_LastSegmentNonWrapperIsScoped ==
    pc = "classified" /\ ~LastSegmentSingleton(ty) /\ ~LastSegmentArcMutex(ty)
        => result = IF ArcNoArguments(ty) THEN ClassifyPanic
                    ELSE Classified(ty, "Scoped")

C6_Witness ==
    /\ pc = "classified"
    /\ ty.qself
    /\ Last(ty.segments).ident = "Singleton"
    /\ Last(ty.segments).arguments = AngleBracketed(<<TypeArg(Foo)>>)
    /\ result = Classified(ty, "Scoped")

\* C7: a field declared `Singleton<T>`, with exactly one argument T that is a
\* path type, is classified as T with scope Singleton.
C7_SingletonYieldsT ==
    pc = "classified" /\ DeclaredSingletonT(ty)
        => result = Classified(ArgOf(ty), "Singleton")

C7_Witness ==
    pc = "classified" /\ DeclaredSingletonT(ty) /\ result.ty = ArgOf(ty)

(***************************************************************************)
(* Properties of the analysis and the emission, checked under Spec.        *)
(***************************************************************************)
Analysed == pc \in {"parsed", "emitted"}

FieldList == input.fields.list

NamesOf(list) == {list[i].ident : i \in DOMAIN list}

\* C2: for named fields the container identifier is "container" when no field
\* has that name, "container1" when a field is named "container" and none
\* "container1", and "container2" when both names are present.
C2_ContainerIdentifier ==
    Analysed /\ input.fields.kind = "Named"
        => LET names == NamesOf(FieldList) IN
           /\ "container" \notin names => target.container = "container"
           /\ "container" \in names /\ "container1" \notin names
                => target.container = "container1"
           /\ "container" \in names /\ "container1" \in names
                => target.container = "container2"

\* C3: for named fields the container identifier differs from the name of
\* every field.
C3_ContainerIdentifierIsFresh ==
    Analysed /\ input.fields.kind = "Named"
        => target.container \notin NamesOf(FieldList)

\* C4: in a target of a non-unit struct every dependency holds the container
\* identifier of the target, the parameter of the generated resolve.
C4_DepsUseTargetContainer ==
    Analysed /\ ~target.is_unit
        => \A i \in DOMAIN target.deps : target.deps[i].container = target.container

\* C8: for a non-unit target without constructor the output is the resolution
\* statements of the dependencies in list order, then one construction of the
\* target type from the bindings in declaration order: `Type { a, b }` for
\* named fields, `Type(x0, x1)` for unnamed fields.
C8_EmitConstruction ==
    pc = "emitted" /\ ~target.is_unit /\ ~target.constructor.present
        => /\ output.stmts
                = [i \in DOMAIN target.deps |-> DependencyToTokens(target.deps[i])]
           /\ output.create.path = <<target.target_type>>
           /\ output.create.params
                = [i \in DOMAIN target.deps |-> var_name(target.deps[i])]
           /\ output.create.delim
                = IF input.fields.kind = "Named" THEN "Brace" ELSE "Paren"

\* C9: the dependencies are one per field in declaration order; the i-th
\* refers to the i-th field by name (named) or by zero-based index
\* (unnamed) and carries the classification of its declared type; a unit
\* struct has none.  The analysis is aborted only when the classification of
\* a field aborts.
C9_DepsFollowFields ==
    /\ Analysed
        => /\ Len(target.deps) = Len(FieldList)
           /\ \A i \in DOMAIN FieldList :
                /\ target.deps[i].field
                     = IF input.fields.kind = "Named"
                       THEN TargetFieldNamed(FieldList[i].ident)
                       ELSE TargetFieldUnnamed(i - 1)
                /\ get_type_and_scope(FieldList[i].ty)
                     = Classified(target.deps[i].field_type, target.deps[i].scope)
           /\ input.fields.kind = "Unit" => target.deps = <<>>
    /\ pc = "aborted" /\ input.data = "Struct"
        => \E i \in DOMAIN FieldList :
             get_type_and_scope(FieldList[i].ty) = ClassifyPanic

C9_Witness ==
    /\ Analysed
    /\ input.fields.kind = "Unnamed"
    /\ Len(target.deps) = 2
    /\ target.deps[2].field = TargetFieldUnnamed(1)
    /\ target.deps[1].scope # target.deps[2].scope

\* C10: an enum or a union is rejected with its diagnostic: no target is
\* produced and nothing is emitted.
C10_EnumAndUnionRejected ==
    input.data \in {"Enum", "Union"} /\ pc # "start"
        => /\ pc = "aborted"
           /\ target = NoTarget
           /\ output = NoOutput
           /\ diagnostic = IF input.data = "Enum" THEN EnumDiagnostic
                           ELSE UnionDiagnostic

C10_Witness ==
    pc = "aborted" /\ input.data = "Union" /\ diagnostic = UnionDiagnostic

====
